---------------------------- MODULE Spec2Model ----------------------------
(***************************************************************************)
(* Model of the trial-alignment / filtering code of Data_cleaner.py and of *)
(* the firing-rate calculator of cal_FR.py.                                *)
(*                                                                         *)
(* A pandas table is a sequence of rows; every row carries its index label *)
(* in the field idx.  Tables handed in by the caller carry a RangeIndex    *)
(* (idx = position - 1).  A spike matrix is the sequence of its slices     *)
(* along axis 0, the axis that the code indexes.  A float is modelled by   *)
(* the exact rational [num, den] in lowest terms.                          *)
(***************************************************************************)
EXTENDS Integers, Sequences, FiniteSets, TLC

VARIABLES
    trials,               \* the caller's trial table
    units,                \* the caller's unit table
    trials0,              \* the trial table as it was handed in
    units0,               \* the unit table as it was handed in
    sel_session,          \* session_name of the last get_*_trials calls
    sel_out,              \* their outcomes, per class (TRUE: correct)
    running,              \* "none", "correct" (get_correct_df), "incorrect"
    i,                    \* number of sessions the for loop has completed
    units_new,            \* locals of get_correct_df / get_incorrect_df
    trials_new,
    num_selected,         \* num_of_correct / num_of_incorrect
    num_of_total_trials,
    units_cur_session,
    trials_cur_session,
    index,                \* correct_index / incorrect_index
    ret,                  \* outcome of the finished get_*_df call, per class
    fr_in,                \* arguments of cal_FR
    fr_out                \* its outcome

vars == <<trials, units, trials0, units0, sel_session, sel_out, running, i,
          units_new, trials_new, num_selected, num_of_total_trials,
          units_cur_session, trials_cur_session, index, ret, fr_in, fr_out>>

trial_vars == <<sel_session, sel_out>>
df_vars    == <<running, i, units_new, trials_new, num_selected,
                num_of_total_trials, units_cur_session, trials_cur_session,
                index, ret>>
fr_vars    == <<fr_in, fr_out>>

---------------------------------------------------------------------------
(* Bounds of the inputs.                                                   *)

MaxTrials      == 3    \* rows of a trial table given to get_*_trials
MaxTrialNum    == 3    \* largest trialNum in such a table
DfMaxTrials    == 2    \* rows of a trial table given to get_*_df
DfMaxTrialNum  == 3    \* largest trialNum in such a table
MaxUnits       == 2    \* rows of a unit table
MaxBins        == 3    \* length of a binned spike train
MaxCount       == 1    \* largest spike count of one bin
MaxIdx         == 4    \* largest start_time / end_time

DataSessions  == {"session_00", "session_01"}
QuerySessions == DataSessions \cup {"session_02"}
BinSizes      == {1, 10}

---------------------------------------------------------------------------
(* Table helpers.                                                          *)

Range(s) == {s[k] : k \in DOMAIN s}

\* pandas' default RangeIndex: label = position, from 0
RangeIndex(rows) == [k \in DOMAIN rows |-> [rows[k] EXCEPT !.idx = k - 1]]

\* table[table['session'] == session_name]: the matching rows in stored
\* order, labels kept
BoolMask(table, session_name) ==
    SelectSeq(table, LAMBDA r : r.session = session_name)

\* pd.concat([a, b], ignore_index=True)
concat(a, b) == RangeIndex(a \o b)

\* positional selection along axis 0 (DataFrame.iloc[list], ndarray[list]):
\* IndexError when a position is out of bounds, negative positions count
\* from the end; the empty pd.Index([]) of a session without trials
\* selects nothing
take_raises(s, positions) ==
    \E k \in DOMAIN positions :
        positions[k] >= Len(s) \/ positions[k] < -Len(s)

take(s, positions) ==
    [k \in DOMAIN positions |->
        s[(IF positions[k] >= 0 THEN positions[k]
                                ELSE Len(s) + positions[k]) + 1]]

Permutations_(n) ==
    {p \in [1..n -> 1..n] : \A a, b \in 1..n : a # b => p[a] # p[b]}

---------------------------------------------------------------------------
(* Data_cleaner.py: get_correct_trials / get_incorrect_trials.             *)

\* session_data.sort_values(by='trialNum'): ascending by trialNum.  The
\* default kind is quicksort, which is not stable, so every order of the
\* rows with equal trialNum is a possible outcome.
sort_values_unsorted(session_data) == {session_data}

sort_values(session_data) ==
    LET n == Len(session_data) IN
    {[k \in 1..n |-> session_data[p[k]]] :
        p \in {q \in Permutations_(n) :
                 \A a \in 1..(n - 1) :
                    session_data[q[a]].trialNum
                        <= session_data[q[a + 1]].trialNum}}

\* the prints of step 3, in the order they are made
validate_trial_nums_each_pair(trial_nums) ==
    (IF trial_nums[1] # 1 THEN <<"starts_not_at_1">> ELSE <<>>)
    \o SelectSeq([a \in 1..(Len(trial_nums) - 1) |->
                     IF trial_nums[a + 1] - trial_nums[a] # 1
                     THEN "not_contiguous" ELSE "ok"],
                 LAMBDA m : m = "not_contiguous")

validate_trial_nums(trial_nums) ==
    (IF trial_nums[1] # 1 THEN <<"starts_not_at_1">> ELSE <<>>)
    \o (IF /\ Len(trial_nums) > 1
           /\ \E a \in 1..(Len(trial_nums) - 1) :
                  trial_nums[a + 1] - trial_nums[a] # 1
        THEN <<"not_contiguous">> ELSE <<>>)

\* sorted_data.index = sorted_data['trialNum'] - 1
set_index(sorted_data) ==
    [k \in DOMAIN sorted_data |->
        [sorted_data[k] EXCEPT !.idx = sorted_data[k].trialNum - 1]]

\* The body shared by the two functions, which differ in the outcome flag
\* they keep, for one outcome sorted_data of the sort.  The result holds
\* the returned Index, the prints and the local sorted_data at the return.
select_trials(session_data, sorted_data, flag) ==
    IF session_data = <<>>
    THEN [index |-> <<>>, printed |-> <<"no_data">>, sorted_data |-> <<>>]
    ELSE LET trial_nums == [k \in DOMAIN sorted_data |->
                               sorted_data[k].trialNum]
             reindexed  == set_index(sorted_data)
             kept       == SelectSeq(reindexed, LAMBDA r : r.correct = flag)
         IN  [index       |-> [k \in DOMAIN kept |-> kept[k].idx],
              printed     |-> validate_trial_nums(trial_nums),
              sorted_data |-> reindexed]

\* Every outcome a call can have.
get_correct_trials(data, session_name) ==
    LET session_data == BoolMask(data, session_name) IN
    {select_trials(session_data, s, 1) : s \in sort_values(session_data)}

get_incorrect_trials_keeps_correct(data, session_name) ==
    LET session_data == BoolMask(data, session_name) IN
    {select_trials(session_data, s, 1) : s \in sort_values(session_data)}

get_incorrect_trials(data, session_name) ==
    LET session_data == BoolMask(data, session_name) IN
    {select_trials(session_data, s, 0) : s \in sort_values(session_data)}

get_trials(data, session_name, wantCorrect) ==
    IF wantCorrect THEN get_correct_trials(data, session_name)
                   ELSE get_incorrect_trials(data, session_name)

\* The caller's table after a call: session_data is a copy made by the
\* boolean mask and sort_values returns a new table, so the new index is
\* set on a table of the call's own.
data_after_set_index_in_place(data, reindexed) ==
    [k \in DOMAIN data |->
        IF \E r \in Range(reindexed) :
               [r EXCEPT !.idx = data[k].idx] = data[k]
        THEN [data[k] EXCEPT !.idx = data[k].trialNum - 1]
        ELSE data[k]]

data_after_get_trials(data, reindexed) == data

---------------------------------------------------------------------------
(* Data_cleaner.py: get_correct_df / get_incorrect_df.                     *)

num_sessions == 27

\* f"{i:02d}"
Format02d(n) == IF n < 10 THEN "0" \o ToString(n) ELSE ToString(n)

\* session_name_list; position k holds the name of range index k - 1
session_name_list ==
    [k \in 1..num_sessions |-> "session_" \o Format02d(k - 1)]

\* units_cur_session.at[ind, 'spkMtx']
at_get(table, ind) == (CHOOSE r \in Range(table) : r.idx = ind).spkMtx

\* units_cur_session.at[ind, 'spkMtx'] = value
at_set(table, ind, value) ==
    [k \in DOMAIN table |->
        IF table[k].idx = ind THEN [table[k] EXCEPT !.spkMtx = value]
                              ELSE table[k]]

\* The for loop over units_cur_session.index, from its position done + 1
\* on.  Each round filters one unit's matrix in units_cur_session and then
\* appends the whole of units_cur_session to units_new.
RECURSIVE unit_loop(_, _, _, _, _)
unit_loop(cur, labels, done, selected, acc) ==
    IF done = Len(labels)
    THEN [raised |-> FALSE, units_cur_session |-> cur, units_new |-> acc]
    ELSE LET ind             == labels[done + 1]
             original_matrix == at_get(cur, ind)
         IN  IF take_raises(original_matrix, selected)
             THEN [raised |-> TRUE, units_cur_session |-> cur,
                   units_new |-> acc]
             ELSE LET new_filtered_matrix == take(original_matrix, selected)
                      cur2 == at_set(cur, ind, new_filtered_matrix)
                  IN  unit_loop(cur2, labels, done + 1, selected,
                                concat(acc, cur2))

\* One round of the for loop over session_name_list, for the session name
\* and for the outcome sel of the get_*_trials call.  fr holds the locals
\* before the round; the result holds them after it, or as they are when
\* an IndexError leaves the function (raised).
session_round(fr, units_in, trials_in, name, sel) ==
    LET units_cur  == BoolMask(units_in, name)
        trials_cur == BoolMask(trials_in, name)
        counts     == Append(fr.num_selected, Len(sel.index))
        totals     == Append(fr.num_of_total_trials, Len(trials_cur))
    IN  IF take_raises(trials_cur, sel.index)
        THEN [fr EXCEPT !.raised = TRUE,
                        !.units_cur_session = units_cur,
                        !.trials_cur_session = trials_cur,
                        !.index = sel.index,
                        !.num_selected = counts,
                        !.num_of_total_trials = totals]
        ELSE LET kept == take(trials_cur, sel.index)
                 ul   == unit_loop(units_cur,
                                   [k \in DOMAIN units_cur |-> units_cur[k].idx],
                                   0, sel.index, fr.units_new)
             IN  [raised              |-> ul.raised,
                  units_new           |-> ul.units_new,
                  trials_new          |-> concat(fr.trials_new, kept),
                  num_selected        |-> counts,
                  num_of_total_trials |-> totals,
                  units_cur_session   |-> ul.units_cur_session,
                  trials_cur_session  |-> kept,
                  index               |-> sel.index]

\* The caller's unit table after a round: units_cur_session is a copy made
\* by the boolean mask, so the .at assignments stay in the copy.
units_after_round_on_view(units_in, cur) ==
    [k \in DOMAIN units_in |->
        IF \E r \in Range(cur) : r.idx = units_in[k].idx
        THEN CHOOSE r \in Range(cur) : r.idx = units_in[k].idx
        ELSE units_in[k]]

units_after_round(units_in, cur) == units_in

\* units.head(0), trials.head(0), [] and [] at the start of a call
NewFrame ==
    [raised |-> FALSE, units_new |-> <<>>, trials_new |-> <<>>,
     num_selected |-> <<>>, num_of_total_trials |-> <<>>,
     units_cur_session |-> <<>>, trials_cur_session |-> <<>>,
     index |-> <<>>]

Frame ==
    [raised |-> FALSE, units_new |-> units_new, trials_new |-> trials_new,
     num_selected |-> num_selected,
     num_of_total_trials |-> num_of_total_trials,
     units_cur_session |-> units_cur_session,
     trials_cur_session |-> trials_cur_session, index |-> index]

NoRet ==
    [status |-> "none", units_new |-> <<>>, trials_new |-> <<>>,
     num_selected |-> <<>>, num_of_total_trials |-> <<>>]

\* an IndexError left the function: the caller gets nothing
Raised == [NoRet EXCEPT !.status = "raised"]

\* return units_new, trials_new, num_of_correct, num_of_total_trials
Returned(fr) ==
    [status |-> "returned", units_new |-> fr.units_new,
     trials_new |-> fr.trials_new, num_selected |-> fr.num_selected,
     num_of_total_trials |-> fr.num_of_total_trials]

\* A whole call on the tables units_in, trials_in, from round done + 1 on.
RECURSIVE run_from(_, _, _, _, _)
run_from(fr, done, units_in, trials_in, wantCorrect) ==
    IF fr.raised THEN Raised
    ELSE IF done = num_sessions THEN Returned(fr)
    ELSE LET name == session_name_list[done + 1]
             sel  == CHOOSE s \in get_trials(trials_in, name, wantCorrect) :
                         TRUE
         IN  run_from(session_round(fr, units_in, trials_in, name, sel),
                      done + 1, units_in, trials_in, wantCorrect)

get_correct_df(units_in, trials_in) ==
    run_from(NewFrame, 0, units_in, trials_in, TRUE)

get_incorrect_df(units_in, trials_in) ==
    run_from(NewFrame, 0, units_in, trials_in, FALSE)

---------------------------------------------------------------------------
(* cal_FR.py: cal_FR.                                                      *)

RECURSIVE GCD(_, _)
GCD(a, b) == IF b = 0 THEN a ELSE GCD(b, a % b)

\* the rational num / den (den > 0, num >= 0) in lowest terms
Float(num, den) ==
    LET g == GCD(num, den) IN [num |-> num \div g, den |-> den \div g]

FloatDiv(x, y) == Float(x.num * y.den, x.den * y.num)

\* data[start_time:end_time] for start_time, end_time >= 0
slice_end_included(data, start_time, end_time) ==
    LET hi == IF end_time + 1 < Len(data) THEN end_time + 1 ELSE Len(data)
    IN  [k \in 1..(IF hi > start_time THEN hi - start_time ELSE 0) |->
            data[start_time + k]]

slice(data, start_time, end_time) ==
    LET hi == IF end_time < Len(data) THEN end_time ELSE Len(data)
    IN  [k \in 1..(IF hi > start_time THEN hi - start_time ELSE 0) |->
            data[start_time + k]]

RECURSIVE np_sum(_)
np_sum(a) == IF a = <<>> THEN 0 ELSE Head(a) + np_sum(Tail(a))

cal_FR_nominal_bins(data, start_time, end_time, bin_size_ms) ==
    LET spike_window == slice(data, start_time, end_time)
        spike_count  == np_sum(spike_window)
        num_bins     == Len(spike_window)
    IN  IF num_bins = 0
        THEN [ret     |-> Float(0, 1),
              printed |-> IF start_time >= end_time
                          THEN <<"start_ge_end">> ELSE <<"window_empty">>]
        ELSE LET duration_ms  == (end_time - start_time) * bin_size_ms
                 duration_sec == FloatDiv(Float(duration_ms, 1),
                                          Float(1000, 1))
             IN  [ret     |-> FloatDiv(Float(spike_count, 1), duration_sec),
                  printed |-> <<>>]

cal_FR(data, start_time, end_time, bin_size_ms) ==
    LET spike_window == slice(data, start_time, end_time)
        spike_count  == np_sum(spike_window)
        num_bins     == Len(spike_window)
    IN  IF num_bins = 0
        THEN [ret     |-> Float(0, 1),
              printed |-> IF start_time >= end_time
                          THEN <<"start_ge_end">> ELSE <<"window_empty">>]
        ELSE LET duration_ms  == num_bins * bin_size_ms
                 duration_sec == FloatDiv(Float(duration_ms, 1),
                                          Float(1000, 1))
             IN  [ret     |-> FloatDiv(Float(spike_count, 1), duration_sec),
                  printed |-> <<>>]

---------------------------------------------------------------------------
(* Inputs.                                                                 *)

TrialRows(sessions, maxNum) ==
    [idx : {0}, session : sessions, trialNum : 1..maxNum, correct : {0, 1}]

Tables(sessions, maxRows, maxNum) ==
    {RangeIndex(t) :
        t \in UNION {[1..n -> TrialRows(sessions, maxNum)] : n \in 0..maxRows}}

\* Tables of one session with up to maxRows rows, and tables that mix the
\* rows of two sessions with up to maxRows - 1 rows.
TrialTables(maxRows, maxNum) ==
    Tables({"session_00"}, maxRows, maxNum)
        \cup Tables(DataSessions, maxRows - 1, maxNum)

\* session_00 numbered 1, 2, 2, 4 (a duplicate and a gap), stored in that
\* order or shuffled, with every assignment of the outcome flags
ExampleTrialTables ==
    {RangeIndex([k \in 1..4 |->
                    [idx |-> 0, session |-> "session_00",
                     trialNum |-> nums[k], correct |-> flags[k]]]) :
        nums \in {<<1, 2, 2, 4>>, <<2, 4, 1, 2>>},
        flags \in [1..4 -> {0, 1}]}

\* Unit p of the table holds one slice per trial row of its session; slice
\* k of unit p is the number 10 * p + k - 1.
UnitTables(trial_table) ==
    {RangeIndex([p \in DOMAIN ss |->
                    [idx |-> 0, session |-> ss[p],
                     spkMtx |-> [k \in 1..Len(BoolMask(trial_table, ss[p]))
                                    |-> 10 * p + k - 1]]]) :
        ss \in UNION {[1..n -> DataSessions] : n \in 0..MaxUnits}}

CalFRInputs ==
    [data : UNION {[1..n -> 0..MaxCount] : n \in 0..MaxBins},
     start_time : 0..MaxIdx, end_time : 0..MaxIdx, bin_size_ms : BinSizes]

ExampleCalFRInput ==
    [data |-> <<1, 0, 1, 1, 0>>, start_time |-> 0, end_time |-> 4,
     bin_size_ms |-> 10]

NotCalled == [called |-> FALSE, index |-> <<>>, printed |-> <<>>]

FRNotCalled == [called |-> FALSE, ret |-> Float(0, 1), printed |-> <<>>]

TrialsIdle ==
    /\ sel_session = ""
    /\ sel_out = [w \in BOOLEAN |-> NotCalled]

DfIdle ==
    /\ running = "none"
    /\ i = 0
    /\ units_new = <<>>
    /\ trials_new = <<>>
    /\ num_selected = <<>>
    /\ num_of_total_trials = <<>>
    /\ units_cur_session = <<>>
    /\ trials_cur_session = <<>>
    /\ index = <<>>
    /\ ret = [w \in BOOLEAN |-> NoRet]

FRIdle ==
    /\ fr_in = [data |-> <<>>, start_time |-> 0, end_time |-> 0,
                bin_size_ms |-> 1]
    /\ fr_out = FRNotCalled

InitTrials ==
    /\ trials \in TrialTables(MaxTrials, MaxTrialNum) \cup ExampleTrialTables
    /\ units = <<>>
    /\ trials0 = trials
    /\ units0 = units
    /\ TrialsIdle /\ DfIdle /\ FRIdle

InitDf ==
    /\ trials \in TrialTables(DfMaxTrials, DfMaxTrialNum)
    /\ units \in UnitTables(trials)
    /\ trials0 = trials
    /\ units0 = units
    /\ TrialsIdle /\ DfIdle /\ FRIdle

InitFR ==
    /\ trials = <<>>
    /\ units = <<>>
    /\ trials0 = trials
    /\ units0 = units
    /\ TrialsIdle /\ DfIdle
    /\ fr_in \in CalFRInputs \cup {ExampleCalFRInput}
    /\ fr_out = FRNotCalled

---------------------------------------------------------------------------
(* Calls of get_correct_trials / get_incorrect_trials.                     *)

CallGetTrials(session_name, wantCorrect) ==
    \E r \in get_trials(trials, session_name, wantCorrect) :
        /\ sel_session' = session_name
        /\ sel_out' = [(IF session_name = sel_session
                        THEN sel_out ELSE [w \in BOOLEAN |-> NotCalled])
                       EXCEPT ![wantCorrect] =
                           [called |-> TRUE, index |-> r.index,
                            printed |-> r.printed]]
        /\ trials' = data_after_get_trials(trials, r.sorted_data)
        /\ UNCHANGED <<units, trials0, units0, df_vars, fr_vars>>

CallGetCorrectTrials ==
    \E session_name \in QuerySessions : CallGetTrials(session_name, TRUE)

CallGetIncorrectTrials ==
    \E session_name \in QuerySessions : CallGetTrials(session_name, FALSE)

NextTrials == CallGetCorrectTrials \/ CallGetIncorrectTrials

SpecTrials == InitTrials /\ [][NextTrials]_vars

---------------------------------------------------------------------------
(* Calls of get_correct_df / get_incorrect_df, one step per round of the   *)
(* loop over the sessions.                                                 *)

SetFrame(fr) ==
    /\ units_new' = fr.units_new
    /\ trials_new' = fr.trials_new
    /\ num_selected' = fr.num_selected
    /\ num_of_total_trials' = fr.num_of_total_trials
    /\ units_cur_session' = fr.units_cur_session
    /\ trials_cur_session' = fr.trials_cur_session
    /\ index' = fr.index

WantCorrect == running = "correct"

\* Each function is called once on the tables.
CallDf(wantCorrect) ==
    /\ running = "none"
    /\ ret[wantCorrect].status = "none"
    /\ running' = IF wantCorrect THEN "correct" ELSE "incorrect"
    /\ i' = 0
    /\ SetFrame(NewFrame)
    /\ UNCHANGED <<trials, units, trials0, units0, ret, trial_vars, fr_vars>>

CallGetCorrectDf == CallDf(TRUE)

CallGetIncorrectDf == CallDf(FALSE)

SessionRound ==
    /\ running # "none"
    /\ i < num_sessions
    /\ LET name == session_name_list[i + 1] IN
       \E sel \in get_trials(trials, name, WantCorrect) :
          LET fr == session_round(Frame, units, trials, name, sel) IN
          /\ ~fr.raised
          /\ SetFrame(fr)
          /\ i' = i + 1
          /\ units' = units_after_round(units, fr.units_cur_session)
          /\ trials' = data_after_get_trials(trials, sel.sorted_data)
    /\ UNCHANGED <<running, ret, trials0, units0, trial_vars, fr_vars>>

SessionRoundRaises ==
    /\ running # "none"
    /\ i < num_sessions
    /\ LET name == session_name_list[i + 1] IN
       \E sel \in get_trials(trials, name, WantCorrect) :
          LET fr == session_round(Frame, units, trials, name, sel) IN
          /\ fr.raised
          /\ units' = units_after_round(units, fr.units_cur_session)
          /\ trials' = data_after_get_trials(trials, sel.sorted_data)
    /\ ret' = [ret EXCEPT ![WantCorrect] = Raised]
    /\ running' = "none"
    /\ i' = 0
    /\ SetFrame(NewFrame)
    /\ UNCHANGED <<trials0, units0, trial_vars, fr_vars>>

ReturnDf ==
    /\ running # "none"
    /\ i = num_sessions
    /\ ret' = [ret EXCEPT ![WantCorrect] = Returned(Frame)]
    /\ running' = "none"
    /\ i' = 0
    /\ SetFrame(NewFrame)
    /\ UNCHANGED <<trials, units, trials0, units0, trial_vars, fr_vars>>

NextDf ==
    \/ CallGetCorrectDf
    \/ CallGetIncorrectDf
    \/ SessionRound
    \/ SessionRoundRaises
    \/ ReturnDf

SpecDf == InitDf /\ [][NextDf]_vars

---------------------------------------------------------------------------
(* A call of cal_FR.                                                       *)

CallCalFR ==
    /\ ~fr_out.called
    /\ LET r == cal_FR(fr_in.data, fr_in.start_time, fr_in.end_time,
                       fr_in.bin_size_ms)
       IN  fr_out' = [called |-> TRUE, ret |-> r.ret, printed |-> r.printed]
    /\ UNCHANGED <<trials, units, trials0, units0, trial_vars, df_vars, fr_in>>

NextFR == CallCalFR

SpecFR == InitFR /\ [][NextFR]_vars

---------------------------------------------------------------------------
(* Properties.  They are stated on the tables as they were handed in and   *)
(* do not use the operators above unless said.                             *)

\* positions of the session's rows in a table
RowsOf(table, name) == {k \in DOMAIN table : table[k].session = name}

\* the session's trial numbers are exactly 1..K, K >= 1, each once
CleanSession(table, name) ==
    LET rows == RowsOf(table, name) IN
    /\ rows # {}
    /\ {table[k].trialNum : k \in rows} = 1..Cardinality(rows)

\* the session's trial numbers, once sorted, have an adjacent pair whose
\* difference is not 1: a trial number is repeated or one is missing
\* between the smallest and the largest
NonContiguousSession(table, name) ==
    LET rows == RowsOf(table, name)
        nums == {table[k].trialNum : k \in rows}
    IN  /\ Cardinality(rows) > 1
        /\ \/ Cardinality(nums) < Cardinality(rows)
           \/ \E a, b \in nums :
                 a < b /\ \E n \in (a + 1)..(b - 1) : n \notin nums

FlagOf(wantCorrect) == IF wantCorrect THEN 1 ELSE 0

\* the keys trialNum - 1 of the session's rows of a class
KeysOf(table, name, wantCorrect) ==
    {table[k].trialNum - 1 :
        k \in {r \in RowsOf(table, name) :
                  table[r].correct = FlagOf(wantCorrect)}}

Ascending(s) == \A a, b \in DOMAIN s : a < b => s[a] < s[b]

NonDecreasing(s) == \A a, b \in DOMAIN s : a < b => s[a] <= s[b]

Count(s, v) == Cardinality({k \in DOMAIN s : s[k] = v})

C7_OneWarningKeysKept ==
    \A w \in BOOLEAN :
        (sel_out[w].called /\ NonContiguousSession(trials0, sel_session)) =>
            LET rows    == RowsOf(trials0, sel_session)
                printed == sel_out[w].printed
                keys    == sel_out[w].index
            IN  /\ Count(printed, "not_contiguous") = 1
                /\ Count(printed, "starts_not_at_1") =
                       (IF \E k \in rows : trials0[k].trialNum = 1
                        THEN 0 ELSE 1)
                /\ Len(printed) = Count(printed, "not_contiguous")
                                  + Count(printed, "starts_not_at_1")
                /\ NonDecreasing(keys)
                /\ \A v \in Range(keys)
                           \cup {trials0[k].trialNum - 1 : k \in rows} :
                       Count(keys, v) =
                           Cardinality({k \in rows :
                               /\ trials0[k].trialNum - 1 = v
                               /\ trials0[k].correct = FlagOf(w)})

\* trial numbers 1, 2, 2, 4, all correct: one warning, key 1 twice
C7_Witness ==
    /\ sel_out[TRUE].called
    /\ sel_session = "session_00"
    /\ [k \in DOMAIN trials0 |-> trials0[k].trialNum] = <<1, 2, 2, 4>>
    /\ sel_out[TRUE].index = <<0, 1, 1, 3>>
    /\ sel_out[TRUE].printed = <<"not_contiguous">>

\* the session whose round the loop has just completed
LastSession == session_name_list[i]

InLoopAfterRound == running # "none" /\ i >= 1

\* C1: for a session numbered exactly 1..K, stored in any order, the j-th
\* trial row kept for the session is the trial whose trialNum - 1 is the
\* j-th selected index, the one applied to the spike matrices; so the rows
\* kept are the session's rows of the class.
C1_KeptRowsAligned ==
    (InLoopAfterRound /\ CleanSession(trials0, LastSession)) =>
        /\ Len(trials_cur_session) = Len(index)
        /\ \A j \in DOMAIN trials_cur_session :
               /\ trials_cur_session[j].trialNum - 1 = index[j]
               /\ trials_cur_session[j].correct = FlagOf(WantCorrect)

\* C2: the rounds completed so far have put into units_new, for the last
\* session as for the others, one row per unit row of the session, each
\* with the unit's spike matrix restricted to the session's selected
\* index.
C2_OneFilteredRowPerUnit ==
    InLoopAfterRound =>
        LET got == BoolMask(units_new, LastSession)
            inp == BoolMask(units0, LastSession)
        IN  /\ Len(got) = Len(inp)
            /\ Len(units_new) =
                   Cardinality({k \in DOMAIN units0 :
                       \E s \in 1..i : units0[k].session = session_name_list[s]})
            /\ \A j \in DOMAIN got :
                   j \in DOMAIN inp =>
                       got[j].spkMtx =
                           [k \in DOMAIN index |-> inp[j].spkMtx[index[k] + 1]]

BothCallsOver ==
    /\ running = "none"
    /\ ret[TRUE].status # "none"
    /\ ret[FALSE].status # "none"

\* C4: the call for the correct class and the call for the incorrect class
\* on the same tables both give count sequences of length 27, the two
\* counts of a session add up to the total recorded for it, and both calls
\* record the same totals; also with gaps, duplicates, a start other than
\* 1 or no trials.
C4_CountsAddUp ==
    BothCallsOver =>
        /\ ret[TRUE].status = "returned"
        /\ ret[FALSE].status = "returned"
        /\ Len(ret[TRUE].num_selected) = 27
        /\ Len(ret[FALSE].num_selected) = 27
        /\ Len(ret[TRUE].num_of_total_trials) = 27
        /\ ret[TRUE].num_of_total_trials = ret[FALSE].num_of_total_trials
        /\ \A k \in 1..27 :
               ret[TRUE].num_selected[k] + ret[FALSE].num_selected[k]
                   = ret[TRUE].num_of_total_trials[k]

\* C5: no anomaly of the trial numbering ends a call with an error: every
\* call goes through all the sessions and returns its four outputs.
C5_NeverAborts ==
    \A w \in BOOLEAN : ret[w].status # "raised"

Window == {p \in DOMAIN fr_in.data : fr_in.start_time < p /\ p <= fr_in.end_time}

RECURSIVE SumOver(_, _)
SumOver(f, S) ==
    IF S = {} THEN 0
    ELSE LET p == CHOOSE q \in S : TRUE IN f[p] + SumOver(f, S \ {p})

\* C8: with W the bins actually in data[start_time:end_time], cal_FR
\* returns 0.0 with the start >= end warning when W is empty and
\* start_time >= end_time, 0.0 with the other warning when W is empty
\* otherwise, and with W not empty it prints nothing and returns
\* sum(W) / (|W| * bin_size_ms / 1000): the divisor is the number of bins
\* in W, not end_time - start_time.
C8_RateOfActualWindow ==
    fr_out.called =>
        IF Window = {}
        THEN /\ fr_out.ret = [num |-> 0, den |-> 1]
             /\ fr_out.printed =
                    (IF fr_in.start_time >= fr_in.end_time
                     THEN <<"start_ge_end">> ELSE <<"window_empty">>)
        ELSE /\ fr_out.printed = <<>>
             /\ fr_out.ret.den > 0
             /\ fr_out.ret.num * Cardinality(Window) * fr_in.bin_size_ms
                    = 1000 * SumOver(fr_in.data, Window) * fr_out.ret.den

\* a window cut short by the end of the train, with spikes in it
C8_Witness ==
    /\ fr_out.called
    /\ fr_in.start_time < Len(fr_in.data)
    /\ fr_in.end_time > Len(fr_in.data)
    /\ Cardinality(Window) = 2
    /\ fr_out.ret.num > 0

IsExampleCall == fr_out.called /\ fr_in = ExampleCalFRInput

\* C9 as stated: cal_FR([1,0,1,1,0], 0, 4, bin_size_ms=10) returns 50.0
C9_Returns50 ==
    IsExampleCall => fr_out.ret = [num |-> 50, den |-> 1]

\* C9 as amended: cal_FR([1,0,1,1,0], 0, 4, bin_size_ms=10) has 3 spikes in
\* its window of 4 bins of 10 ms (0.04 s) and returns 75.0
C9_Returns75 ==
    IsExampleCall =>
        /\ SumOver(fr_in.data, Window) = 3
        /\ Cardinality(Window) = 4
        /\ fr_out.ret = [num |-> 75, den |-> 1]
        /\ fr_out.printed = <<>>

C9_Witness == IsExampleCall /\ fr_out.ret.num > 0

=============================================================================
